---- MODULE Spec2Model ----
(***************************************************************************)
(* A model of the toml_ops crate (crates/toml_ops/src/lib.rs): the path    *)
(* resolvers path / path_mut, PathSegment::apply / apply_mut, the pipe     *)
(* operator `|` and the push operators `<<` and `<<=` of TomlPtr and       *)
(* TomlPtrMut, acting on one toml::Value document.                         *)
(*                                                                         *)
(* Representation.  A string is a sequence of one-character strings, so    *)
(* that splitting and integer parsing are computed.  A toml::Value is a    *)
(* record tagged by `kind`.  A reference into the document is the          *)
(* location of the node: the sequence of keys and indices from the root.   *)
(* An Option<&Value> is None or Some(location).                            *)
(***************************************************************************)
EXTENDS Integers, Sequences, FiniteSets, TLC

VARIABLES
    doc,    \* the toml::Value tree the pointers refer into
    rptr,   \* TomlPtr.valop of the current read pointer, or Moved
    wptr,   \* TomlPtrMut.valop of the current write pointer, or Moved
    last,   \* the last operator applied, the document and pointer before it, the
            \* operands of a pipe or push operator, the value a pipe returned
    nops    \* number of push / assign operators applied so far

vars == <<doc, rptr, wptr, last, nops>>

(***************************************************************************)
(* Bounds of the model.                                                    *)
(***************************************************************************)
\* push / assign operators applied in one run
MaxOps == 2
\* most segments of a generated path string
MaxSegs == 3
\* longest string given to the path parser
MaxLen == 4
\* longest slice pushed with `<< &[T]`
MaxSlice == 2
\* largest integer used as a direct index step
MaxIdx == 1

(***************************************************************************)
(* toml::Value                                                             *)
(***************************************************************************)
VStr(s) == [kind |-> "String", str |-> s]
VInt(i) == [kind |-> "Integer", int |-> i]
VFloat(f) == [kind |-> "Float", flt |-> f]
VBool(b) == [kind |-> "Boolean", bool |-> b]
VDate(t) == [kind |-> "Datetime", dt |-> t]
VArr(a) == [kind |-> "Array", arr |-> a]
VTab(t) == [kind |-> "Table", tab |-> t]

ScalarKinds == {"String", "Integer", "Float", "Boolean"}

(***************************************************************************)
(* Host values: the operands of the push operators and the defaults and    *)
(* results of the pipe operator, tagged by their Rust type.                *)
(***************************************************************************)
HStr(s) == [string |-> s]
HInt(i) == [i64 |-> i]
HFloat(f) == [f64 |-> f]
HBool(x) == [bool |-> x]
HVec(s) == [vec |-> s]
HMap(m) == [map |-> m]
Is(rhs, ty) == ty \in DOMAIN rhs

\* Value::from(rhs) for String/&str, i64, f64, bool, Vec<T> and a map of T
RECURSIVE ValueFrom(_)
ValueFrom(rhs) ==
    CASE Is(rhs, "string") -> VStr(rhs.string)
      [] Is(rhs, "i64") -> VInt(rhs.i64)
      [] Is(rhs, "f64") -> VFloat(rhs.f64)
      [] Is(rhs, "bool") -> VBool(rhs.bool)
      [] Is(rhs, "vec") -> VArr([i \in DOMAIN rhs.vec |-> ValueFrom(rhs.vec[i])])
      [] Is(rhs, "map") -> VTab([k \in DOMAIN rhs.map |-> ValueFrom(rhs.map[k])])

\* keys of a (key, value) pair, K: ToString: a &str or an integer
KStr(s) == [chars |-> s]
KInt(i) == [int |-> i]

DigitChar(n) ==
    CASE n = 0 -> "0" [] n = 1 -> "1" [] n = 2 -> "2" [] n = 3 -> "3" [] n = 4 -> "4"
      [] n = 5 -> "5" [] n = 6 -> "6" [] n = 7 -> "7" [] n = 8 -> "8" [] n = 9 -> "9"

RECURSIVE DecStr(_)
DecStr(n) ==
    IF n < 0 THEN <<"-">> \o DecStr(0 - n)
    ELSE IF n < 10 THEN <<DigitChar(n)>>
    ELSE DecStr(n \div 10) \o <<DigitChar(n % 10)>>

\* key.to_string()
to_string(key) == IF "chars" \in DOMAIN key THEN key.chars ELSE DecStr(key.int)

(***************************************************************************)
(* Option<&Value> and locations                                            *)
(***************************************************************************)
None == [some |-> FALSE]
Some(l) == [some |-> TRUE, loc |-> l]
\* a pointer that was consumed by an operator or whose borrow has ended
Moved == [moved |-> TRUE]

\* the outcome of a call that panicked: Option::unwrap on a None
Panic == [panic |-> TRUE, some |-> FALSE]
IsPanic(x) == "panic" \in DOMAIN x

is_none(o) == ~o.some
\* Option::unwrap
unwrap(o) == IF o.some THEN o ELSE Panic

Key(k) == [key |-> k]
Idx(i) == [idx |-> i]
IsKey(s) == "key" \in DOMAIN s

\* operands of the path operator `/`: a &str or a usize
PStr(s) == [str |-> s]
PIdx(i) == [idx |-> i]
IsStr(p) == "str" \in DOMAIN p

\* the node a location refers to
RECURSIVE node(_, _)
node(d, loc) ==
    IF loc = <<>> THEN d
    ELSE LET s == Head(loc) IN
         IF IsKey(s) THEN node(d.tab[s.key], Tail(loc))
         ELSE node(d.arr[s.idx + 1], Tail(loc))

\* the store as it would be if the containers on the way to loc were rebuilt
\* with the one child on the way
RECURSIVE store_rebuild(_, _, _)
store_rebuild(d, loc, val) ==
    IF loc = <<>> THEN val
    ELSE LET s == Head(loc) IN
         IF IsKey(s)
         THEN VTab(s.key :> store_rebuild(d.tab[s.key], Tail(loc), val))
         ELSE VArr(<<store_rebuild(d.arr[s.idx + 1], Tail(loc), val)>>)

\* the document after `*v = val` through a &mut Value at loc
RECURSIVE store(_, _, _)
store(d, loc, val) ==
    IF loc = <<>> THEN val
    ELSE LET s == Head(loc) IN
         IF IsKey(s)
         THEN VTab([d.tab EXCEPT ![s.key] = store(@, Tail(loc), val)])
         ELSE VArr([d.arr EXCEPT ![s.idx + 1] = store(@, Tail(loc), val)])

(***************************************************************************)
(* Value::get / Value::get_mut with an Index of type &str or usize         *)
(***************************************************************************)
table_get(d, loc, k) ==
    LET v == node(d, loc) IN
    IF v.kind = "Table" /\ k \in DOMAIN v.tab THEN Some(Append(loc, Key(k))) ELSE None

\* array.get as it would be if an index past the end wrapped around
array_get_wrapping(d, loc, i) ==
    LET v == node(d, loc) IN
    IF v.kind = "Array" /\ Len(v.arr) > 0 THEN Some(Append(loc, Idx(i % Len(v.arr)))) ELSE None

array_get(d, loc, i) ==
    LET v == node(d, loc) IN
    IF v.kind = "Array" /\ i < Len(v.arr) THEN Some(Append(loc, Idx(i))) ELSE None

\* get as it would be if an index on a table were looked up as its decimal key
get_key_or_index(d, loc, p) ==
    IF IsStr(p) THEN table_get(d, loc, p.str)
    ELSE IF node(d, loc).kind = "Table" THEN table_get(d, loc, DecStr(p.idx))
    ELSE array_get(d, loc, p.idx)

get(d, loc, p) ==
    IF IsStr(p) THEN table_get(d, loc, p.str) ELSE array_get(d, loc, p.idx)

\* get_mut as it would be if an index on a table were looked up as a key
get_mut_key_or_index(d, loc, p) ==
    IF IsStr(p) THEN table_get(d, loc, p.str)
    ELSE IF node(d, loc).kind = "Table" THEN table_get(d, loc, DecStr(p.idx))
    ELSE array_get(d, loc, p.idx)

get_mut(d, loc, p) ==
    IF IsStr(p) THEN table_get(d, loc, p.str) ELSE array_get(d, loc, p.idx)

(***************************************************************************)
(* str::parse::<usize>                                                     *)
(***************************************************************************)
Digits == {"0", "1", "2", "3", "4", "5", "6", "7", "8", "9"}

DigitVal(c) ==
    CASE c = "0" -> 0 [] c = "1" -> 1 [] c = "2" -> 2 [] c = "3" -> 3
      [] c = "4" -> 4 [] c = "5" -> 5 [] c = "6" -> 6 [] c = "7" -> 7
      [] c = "8" -> 8 [] c = "9" -> 9

RECURSIVE DecVal(_)
DecVal(s) == IF s = <<>> THEN 0 ELSE 10 * DecVal(SubSeq(s, 1, Len(s) - 1)) + DigitVal(s[Len(s)])

\* the digits of s after an optional leading '+'
Unsigned(s) == IF s # <<>> /\ Head(s) = "+" THEN Tail(s) ELSE s

\* the digits of usize::MAX of a 64-bit target, 18446744073709551615
UsizeMaxDigits ==
    <<"1", "8", "4", "4", "6", "7", "4", "4", "0", "7",
      "3", "7", "0", "9", "5", "5", "1", "6", "1", "5">>

\* the digits without their leading zeros
RECURSIVE StripZeros(_)
StripZeros(s) == IF s # <<>> /\ Head(s) = "0" THEN StripZeros(Tail(s)) ELSE s

\* digit strings of the same length: x is at most y
RECURSIVE DigitsLeq(_, _)
DigitsLeq(x, y) ==
    IF x = <<>> THEN TRUE
    ELSE IF DigitVal(Head(x)) # DigitVal(Head(y)) THEN DigitVal(Head(x)) < DigitVal(Head(y))
    ELSE DigitsLeq(Tail(x), Tail(y))

\* the number the digits write fits a usize
FitsUsize(s) ==
    \/ Len(StripZeros(s)) < Len(UsizeMaxDigits)
    \/ Len(StripZeros(s)) = Len(UsizeMaxDigits) /\ DigitsLeq(StripZeros(s), UsizeMaxDigits)

\* Ok(_) of parse::<usize>: digits after an optional '+', no overflow
parse_ok(s) ==
    /\ Unsigned(s) # <<>>
    /\ \A i \in 1..Len(Unsigned(s)) : Unsigned(s)[i] \in Digits
    /\ FitsUsize(Unsigned(s))

parse_val(s) == DecVal(Unsigned(s))

(***************************************************************************)
(* PathBuilder                                                             *)
(***************************************************************************)
\* the closure of split as it would be if only '/' were a delimiter
IsSlash(c) == c = "/"

IsDelim(c) == c = "/" \/ c = "."

RECURSIVE split(_)
split(s) ==
    IF s = <<>> THEN << <<>> >>
    ELSE LET rest == split(Tail(s)) IN
         IF IsDelim(Head(s)) THEN << <<>> >> \o rest
         ELSE << <<Head(s)>> \o Head(rest) >> \o Tail(rest)

\* PathSegment.paths: &str splits on '/' and '.', usize keeps the default (empty)
build_path(p) == IF IsStr(p) THEN split(p.str) ELSE <<>>

(***************************************************************************)
(* PathSegment::apply / apply_mut                                          *)
(***************************************************************************)
RECURSIVE apply_loop(_, _, _)
apply_loop(d, target, paths) ==
    IF paths = <<>> THEN target
    ELSE IF is_none(target) THEN None
    ELSE LET p == Head(paths) IN
         IF p = <<>> THEN apply_loop(d, target, Tail(paths))
         ELSE LET t == unwrap(target) IN
              IF IsPanic(t) THEN Panic
              ELSE IF node(d, t.loc).kind = "Table"
                   THEN apply_loop(d, table_get(d, t.loc, p), Tail(paths))
              ELSE IF node(d, t.loc).kind = "Array"
                   THEN IF parse_ok(p)
                        THEN apply_loop(d, array_get(d, t.loc, parse_val(p)), Tail(paths))
                        ELSE apply_loop(d, target, Tail(paths))
              ELSE None

apply(d, loc, paths) == apply_loop(d, Some(loc), paths)

RECURSIVE apply_mut_loop(_, _, _)
apply_mut_loop(d, target, paths) ==
    IF paths = <<>> THEN target
    ELSE IF is_none(target) THEN None
    ELSE LET p == Head(paths) IN
         IF p = <<>> THEN apply_mut_loop(d, target, Tail(paths))
         ELSE LET t == unwrap(target) IN
              IF IsPanic(t) THEN Panic
              ELSE IF parse_ok(p)
                   THEN apply_mut_loop(d, get_mut(d, t.loc, PIdx(parse_val(p))), Tail(paths))
                   ELSE apply_mut_loop(d, get_mut(d, t.loc, PStr(p)), Tail(paths))

apply_mut(d, loc, paths) == apply_mut_loop(d, Some(loc), paths)

(***************************************************************************)
(* path / path_mut                                                         *)
(***************************************************************************)
\* path as it would be if an Empty pointer were looked up from the root
path_from_root(d, v, p) ==
    LET w == IF v.some THEN v ELSE Some(<<>>)
        from_index == get(d, w.loc, p)
    IN  IF from_index.some THEN from_index
        ELSE IF Len(build_path(p)) > 1 THEN apply(d, w.loc, build_path(p))
        ELSE None

path(d, v, p) ==
    IF is_none(v) THEN None
    ELSE LET w == unwrap(v) IN
         IF IsPanic(w) THEN Panic
         ELSE LET from_index == get(d, w.loc, p) IN
              IF from_index.some THEN from_index
              ELSE IF Len(build_path(p)) > 1 THEN apply(d, w.loc, build_path(p))
              ELSE None

\* path_mut as it would be if a string with delimiters were walked before it is
\* looked up as a key
path_mut_walk_first(d, v, p) ==
    IF ~v.some THEN None
    ELSE IF Len(build_path(p)) > 1 /\ apply_mut(d, v.loc, build_path(p)).some
         THEN apply_mut(d, v.loc, build_path(p))
         ELSE get_mut(d, v.loc, p)

path_mut(d, v, p) ==
    IF is_none(v) THEN None
    ELSE LET w == unwrap(v) IN
         IF IsPanic(w) THEN Panic
         ELSE LET target == get(d, w.loc, p) IN
              IF target.some THEN get_mut(d, w.loc, p)
              ELSE IF Len(build_path(p)) > 1 THEN apply_mut(d, w.loc, build_path(p))
              ELSE None

\* PathOperator for Value: pathto / pathto_mut
\* pathto as it would be if an empty segment failed the walk
pathto_no_skip(d, s) ==
    IF \E i \in 1..Len(build_path(PStr(s))) : build_path(PStr(s))[i] = <<>>
    THEN None
    ELSE apply(d, <<>>, build_path(PStr(s)))

pathto(d, s) == apply(d, <<>>, build_path(PStr(s)))

\* pathto_mut as it would be if the whole string were first looked up as a key
pathto_mut_direct(d, s) ==
    IF get(d, <<>>, PStr(s)).some THEN get_mut(d, <<>>, PStr(s))
    ELSE apply_mut(d, <<>>, build_path(PStr(s)))

pathto_mut(d, s) == apply_mut(d, <<>>, build_path(PStr(s)))

(***************************************************************************)
(* Pipe operator `|`: BitOr<String>, BitOr<&str>, BitOr<i64>, BitOr<f64>,  *)
(* BitOr<bool> for TomlPtr.  The default rhs and the result are host       *)
(* values of the requested type.                                           *)
(***************************************************************************)
\* Value::as_str / as_integer / as_float / as_bool: Some only for that variant
SomeVal(x) == [some |-> TRUE, val |-> x]

as_str(n) == IF n.kind = "String" THEN SomeVal(HStr(n.str)) ELSE None
as_integer(n) == IF n.kind = "Integer" THEN SomeVal(HInt(n.int)) ELSE None
\* as_float as it would be if an integer were cast to a float
as_float_cast(n) ==
    IF n.kind = "Float" THEN SomeVal(HFloat(n.flt))
    ELSE IF n.kind = "Integer" THEN SomeVal(HFloat("1.0"))
    ELSE None

as_float(n) == IF n.kind = "Float" THEN SomeVal(HFloat(n.flt)) ELSE None
\* as_bool as it would be if the stored boolean were negated
as_bool_negated(n) == IF n.kind = "Boolean" THEN SomeVal(HBool(~n.bool)) ELSE None

as_bool(n) == IF n.kind = "Boolean" THEN SomeVal(HBool(n.bool)) ELSE None

unwrap_or(o, rhs) == IF o.some THEN o.val ELSE rhs

bitor(d, v, rhs) ==
    IF is_none(v) THEN rhs
    ELSE IF IsPanic(unwrap(v)) THEN Panic
    ELSE LET n == node(d, unwrap(v).loc) IN
         CASE Is(rhs, "string") -> unwrap_or(as_str(n), rhs)
           [] Is(rhs, "i64") -> unwrap_or(as_integer(n), rhs)
           [] Is(rhs, "f64") -> unwrap_or(as_float(n), rhs)
           [] Is(rhs, "bool") -> unwrap_or(as_bool(n), rhs)

\* TomlPtrMut::immut followed by the read pointer's bitor
\* immut as it would be if the reference were lost in the conversion
immut_none(v) == None

immut(v) == IF v.some THEN Some(v.loc) ELSE None

bitor_mut(d, v, rhs) == bitor(d, immut(v), rhs)

(***************************************************************************)
(* TomlPtrMut: put_val, put_string .. put_bool, push_table, push_array,    *)
(* assign.  Each gives the document and the pointer returned.              *)
(***************************************************************************)
Res(d, v) == [doc |-> d, ptr |-> v]

\* put_val as it would be if the value were not written
put_val_lost(d, loc, rhs) == Res(d, Some(loc))

put_val(d, loc, rhs) == Res(store(d, loc, ValueFrom(rhs)), Some(loc))

put_string(d, v, rhs) ==
    IF v.some /\ node(d, v.loc).kind = "String" THEN put_val(d, v.loc, rhs) ELSE Res(d, None)

\* put_integer as it would be without the is_integer guard
put_integer_unguarded(d, v, rhs) ==
    IF v.some THEN put_val(d, v.loc, rhs) ELSE Res(d, None)

put_integer(d, v, rhs) ==
    IF v.some /\ node(d, v.loc).kind = "Integer" THEN put_val(d, v.loc, rhs) ELSE Res(d, None)

put_float(d, v, rhs) ==
    IF v.some /\ node(d, v.loc).kind = "Float" THEN put_val(d, v.loc, rhs) ELSE Res(d, None)

put_bool(d, v, rhs) ==
    IF v.some /\ node(d, v.loc).kind = "Boolean" THEN put_val(d, v.loc, rhs) ELSE Res(d, None)

\* Value::is_table / is_array and as_table_mut / as_array_mut
is_table(n) == n.kind = "Table"
\* is_array as it would be if it held for every container
is_container(n) == n.kind \in {"Table", "Array"}

is_array(n) == n.kind = "Array"
as_table_mut(n) == IF n.kind = "Table" THEN SomeVal(n.tab) ELSE None
as_array_mut(n) == IF n.kind = "Array" THEN SomeVal(n.arr) ELSE None

\* Map::insert: the entry of k is set, every other entry is kept
insert(t, k, val) == [x \in DOMAIN t \cup {k} |-> IF x = k THEN val ELSE t[x]]

\* push_table as it would be if an existing entry were kept
push_table_if_absent(d, v, key, val) ==
    IF v.some /\ node(d, v.loc).kind = "Table"
    THEN IF to_string(key) \in DOMAIN node(d, v.loc).tab
         THEN Res(d, Some(v.loc))
         ELSE Res(store(d, v.loc,
                        VTab(insert(node(d, v.loc).tab, to_string(key), ValueFrom(val)))),
                  Some(v.loc))
    ELSE Res(d, None)

\* push_table as it would be if a refused insert returned the pointer it was given
push_table_keep_ptr(d, v, key, val) ==
    IF v.some /\ node(d, v.loc).kind = "Table"
    THEN Res(store(d, v.loc, VTab(insert(node(d, v.loc).tab, to_string(key), ValueFrom(val)))),
             Some(v.loc))
    ELSE Res(d, v)

push_table(d, v, key, val) ==
    IF v.some /\ is_table(node(d, v.loc))
    THEN LET t == unwrap(as_table_mut(node(d, v.loc))) IN
         IF IsPanic(t) THEN Res(d, Panic)
         ELSE Res(store(d, v.loc, VTab(insert(t.val, to_string(key), ValueFrom(val)))),
                  Some(v.loc))
    ELSE Res(d, None)

\* push_array as it would be if the value were inserted at the front
push_array_front(d, v, val) ==
    IF v.some /\ node(d, v.loc).kind = "Array"
    THEN Res(store(d, v.loc, VArr(<<ValueFrom(val)>> \o node(d, v.loc).arr)), Some(v.loc))
    ELSE Res(d, None)

push_array(d, v, val) ==
    IF v.some /\ is_array(node(d, v.loc))
    THEN LET t == unwrap(as_array_mut(node(d, v.loc))) IN
         IF IsPanic(t) THEN Res(d, Panic)
         ELSE Res(store(d, v.loc, VArr(Append(t.val, ValueFrom(val)))), Some(v.loc))
    ELSE Res(d, None)

\* assign as it would be if it kept the type of the node, as `<<` does
assign_same_kind(d, v, rhs) ==
    IF v.some /\ node(d, v.loc).kind = ValueFrom(rhs).kind
    THEN Res(store(d, v.loc, ValueFrom(rhs)), v)
    ELSE Res(d, v)

\* assign as it would be if an Empty pointer wrote the document root
assign_or_root(d, v, rhs) ==
    IF v.some THEN Res(store(d, v.loc, ValueFrom(rhs)), v)
    ELSE Res(store(d, <<>>, ValueFrom(rhs)), Some(<<>>))

assign(d, v, rhs) ==
    IF v.some THEN Res(store(d, v.loc, ValueFrom(rhs)), v) ELSE Res(d, v)

\* Shl<&str>, Shl<String>, Shl<i64>, Shl<f64>, Shl<bool>: chosen by the type of rhs
shl_scalar(d, v, rhs) ==
    CASE Is(rhs, "string") -> put_string(d, v, rhs)
      [] Is(rhs, "i64") -> put_integer(d, v, rhs)
      [] Is(rhs, "f64") -> put_float(d, v, rhs)
      [] Is(rhs, "bool") -> put_bool(d, v, rhs)

\* Shl<(K, T)>
shl_pair(d, v, key, val) == push_table(d, v, key, val)

\* Shl<(T,)>
shl_tuple(d, v, val) == push_array(d, v, val)

\* Shl<[T; 1]>
shl_array1(d, v, item) == push_array(d, v, item)

\* Shl<&[T]>: for item in rhs { self = self.push_array(*item) }
RECURSIVE shl_slice(_, _, _)
shl_slice(d, v, items) ==
    IF items = <<>> \/ IsPanic(v) THEN Res(d, v)
    ELSE LET r == push_array(d, v, Head(items)) IN shl_slice(r.doc, r.ptr, Tail(items))

\* ShlAssign<T>
shl_assign(d, v, rhs) == assign(d, v, rhs)

(***************************************************************************)
(* Documents and operands the operators are applied to.                    *)
(***************************************************************************)
a == <<"a">>
b == <<"b">>
n0 == <<"0">>

\* nested containers: a table with a key made of digits, and an array
DocNested == VTab((a :> VTab(n0 :> VInt(1))) @@ (b :> VArr(<<VStr("x")>>)))

\* the scalars not in DocNested: a float, a boolean and a datetime
DocFlat == VTab((a :> VFloat("1.5")) @@ (b :> VBool(FALSE)) @@ (n0 :> VDate("d")))

InitDocs == {DocNested, DocFlat}

\* &str operands of `/`, pathto and pathto_mut
PathStrs == {a, b, n0, <<"a", "/", "0">>}

PathArgs == {PStr(s) : s \in PathStrs} \cup {PIdx(i) : i \in 0..MaxIdx}

\* operands of `<< scalar`: one of each type the operator is implemented for
ScalarArgs == {HStr("y"), HInt(2), HFloat("2.5"), HBool(TRUE)}

\* defaults of `|`, none of them a value the push operators write
DefaultArgs == {HStr(""), HInt(0), HFloat("0.0"), HBool(FALSE), HBool(TRUE)}

\* operands of `<<=`: a scalar, a Vec and a Map
AssignArgs == {HStr("y"), HVec(<<HInt(2)>>), HMap(a :> HInt(2))}

\* operands of `<< (key, value)` and `<< (value,)`
KeyArgs == {KStr(a), KInt(0)}
PushArgs == {HInt(2)}

\* operands of `<< [item]`
ItemArgs == {HStr("y")}

\* operands of `<< &[T]`: the slices [2, 3, ..] of i64, up to MaxSlice long
SliceArgs == {[i \in 1..n |-> HInt(i + 1)] : n \in 0..MaxSlice}

(***************************************************************************)
(* The state machine: one document, the pointers of one owner.             *)
(***************************************************************************)
\* the receiver as it would be if TomlPtrMut were Copy, as TomlPtr is
consume_copy(v) == v

\* a receiver taken by value (`self`, `mut self`) is moved into the operator
consume(v) == Moved

Init ==
    /\ doc \in InitDocs
    /\ rptr = Moved
    /\ wptr = Moved
    /\ last = [op |-> "init"]
    /\ nops = 0

\* v.path()
Path ==
    /\ rptr' = Some(<<>>)
    /\ wptr' = Moved
    /\ last' = [op |-> "path", doc0 |-> doc]
    /\ UNCHANGED <<doc, nops>>

\* v.pathto(s)
Pathto(s) ==
    /\ rptr' = pathto(doc, s)
    /\ wptr' = Moved
    /\ last' = [op |-> "pathto", doc0 |-> doc]
    /\ UNCHANGED <<doc, nops>>

\* v.path_mut()
PathMut ==
    /\ wptr' = Some(<<>>)
    /\ rptr' = Moved
    /\ last' = [op |-> "path_mut", doc0 |-> doc]
    /\ UNCHANGED <<doc, nops>>

\* v.pathto_mut(s)
PathtoMut(s) ==
    /\ wptr' = pathto_mut(doc, s)
    /\ rptr' = Moved
    /\ last' = [op |-> "pathto_mut", doc0 |-> doc]
    /\ UNCHANGED <<doc, nops>>

\* TomlPtr / p
Div(p) ==
    /\ rptr # Moved
    /\ rptr' = path(doc, rptr, p)
    /\ last' = [op |-> "div", doc0 |-> doc, ptr0 |-> rptr]
    /\ UNCHANGED <<doc, wptr, nops>>

\* TomlPtrMut / p as it would be if a missing key of a table were created
DivMutCreate(p) ==
    /\ wptr # Moved
    /\ LET found == path_mut(doc, wptr, p)
           grow == /\ ~found.some /\ wptr.some /\ IsStr(p)
                   /\ node(doc, wptr.loc).kind = "Table"
       IN  /\ doc' = IF grow
                     THEN store(doc, wptr.loc,
                                VTab(insert(node(doc, wptr.loc).tab, p.str, VTab(<<>>))))
                     ELSE doc
           /\ wptr' = IF grow THEN Some(Append(wptr.loc, Key(p.str))) ELSE found
    /\ last' = [op |-> "div_mut", doc0 |-> doc, ptr0 |-> wptr,
                self |-> consume(wptr)]
    /\ UNCHANGED <<rptr, nops>>

\* TomlPtrMut / p
DivMut(p) ==
    /\ wptr # Moved
    /\ wptr' = path_mut(doc, wptr, p)
    /\ last' = [op |-> "div_mut", doc0 |-> doc, ptr0 |-> wptr,
                self |-> consume(wptr)]
    /\ UNCHANGED <<doc, rptr, nops>>

\* TomlPtr | rhs: the read pointer is Copy and stays
BitOr(rhs) ==
    /\ rptr # Moved
    /\ last' = [op |-> "bitor", doc0 |-> doc, ptr0 |-> rptr, rhs |-> rhs,
                ret |-> bitor(doc, rptr, rhs)]
    /\ UNCHANGED <<doc, rptr, wptr, nops>>

\* TomlPtrMut | rhs: the write pointer is moved into the operator
BitOrMut(rhs) ==
    /\ wptr # Moved
    /\ wptr' = consume(wptr)
    /\ last' = [op |-> "bitor_mut", doc0 |-> doc, ptr0 |-> wptr, rhs |-> rhs,
                ret |-> bitor_mut(doc, wptr, rhs)]
    /\ UNCHANGED <<doc, rptr, nops>>

\* a push operator: the pointer is moved in, the returned pointer takes its place
Push(r, rec) ==
    /\ doc' = r.doc
    /\ wptr' = r.ptr
    /\ last' = rec
    /\ nops' = nops + 1
    /\ UNCHANGED rptr

\* TomlPtrMut << scalar
ShlScalar(rhs) ==
    /\ wptr # Moved /\ nops < MaxOps
    /\ Push(shl_scalar(doc, wptr, rhs),
            [op |-> "shl_scalar", doc0 |-> doc, ptr0 |-> wptr, self |-> consume(wptr),
             rhs |-> rhs])

\* TomlPtrMut << (key, val)
ShlPair(key, val) ==
    /\ wptr # Moved /\ nops < MaxOps
    /\ Push(shl_pair(doc, wptr, key, val),
            [op |-> "shl_pair", doc0 |-> doc, ptr0 |-> wptr, self |-> consume(wptr),
             key |-> key, rhs |-> val])

\* TomlPtrMut << (val,)
ShlTuple(val) ==
    /\ wptr # Moved /\ nops < MaxOps
    /\ Push(shl_tuple(doc, wptr, val),
            [op |-> "shl_tuple", doc0 |-> doc, ptr0 |-> wptr, self |-> consume(wptr),
             rhs |-> val])

\* TomlPtrMut << [item]
ShlArray1(item) ==
    /\ wptr # Moved /\ nops < MaxOps
    /\ Push(shl_array1(doc, wptr, item),
            [op |-> "shl_array1", doc0 |-> doc, ptr0 |-> wptr, self |-> consume(wptr),
             rhs |-> item])

\* TomlPtrMut << &items[..]
ShlSlice(items) ==
    /\ wptr # Moved /\ nops < MaxOps
    /\ Push(shl_slice(doc, wptr, items),
            [op |-> "shl_slice", doc0 |-> doc, ptr0 |-> wptr, self |-> consume(wptr),
             items |-> items])

\* TomlPtrMut <<= rhs
ShlAssign(rhs) ==
    /\ wptr # Moved /\ nops < MaxOps
    /\ Push(shl_assign(doc, wptr, rhs),
            [op |-> "shl_assign", doc0 |-> doc, ptr0 |-> wptr, rhs |-> rhs])

Next ==
    \/ Path
    \/ \E s \in PathStrs : Pathto(s)
    \/ PathMut
    \/ \E s \in PathStrs : PathtoMut(s)
    \/ \E p \in PathArgs : Div(p)
    \/ \E p \in PathArgs : DivMut(p)
    \/ \E rhs \in DefaultArgs : BitOr(rhs)
    \/ \E rhs \in DefaultArgs : BitOrMut(rhs)
    \/ \E rhs \in ScalarArgs : ShlScalar(rhs)
    \/ \E key \in KeyArgs, val \in PushArgs : ShlPair(key, val)
    \/ \E val \in PushArgs : ShlTuple(val)
    \/ \E item \in ItemArgs : ShlArray1(item)
    \/ \E items \in SliceArgs : ShlSlice(items)
    \/ \E rhs \in AssignArgs : ShlAssign(rhs)

Spec == Init /\ [][Next]_vars

(***************************************************************************)
(* Reassignment of scalars: resolution, `|` and `<<=` with scalars of each *)
(* type, among them values that are also defaults of `|`.                  *)
(***************************************************************************)
ScalarAssignArgs ==
    {HStr("y"), HStr(""), HInt(2), HInt(-1), HFloat("2.5"), HBool(TRUE), HBool(FALSE)}

NextAssign ==
    \/ Path
    \/ \E s \in PathStrs : Pathto(s)
    \/ PathMut
    \/ \E s \in PathStrs : PathtoMut(s)
    \/ \E p \in PathArgs : Div(p)
    \/ \E p \in PathArgs : DivMut(p)
    \/ \E rhs \in DefaultArgs : BitOr(rhs)
    \/ \E rhs \in DefaultArgs : BitOrMut(rhs)
    \/ \E rhs \in ScalarAssignArgs : ShlAssign(rhs)

SpecAssign == Init /\ [][NextAssign]_vars

(***************************************************************************)
(* Resolution alone: the rooting calls, `/` and `|` on documents that also *)
(* have a key with a delimiter and an array of tables, over generated path *)
(* strings.  The operand of each resolution is kept in `last.p`.           *)
(***************************************************************************)
aSlash0 == <<"a", "/", "0">>

\* a key that holds a delimiter, next to an array of tables under the key a
DocDelim == VTab((aSlash0 :> VInt(7)) @@ (a :> VArr(<<VTab(a :> VStr("z"))>>)))

PathDocs == {DocNested, DocFlat, DocDelim}

\* segments the path strings are made of: the empty one, a key, digits
SegArgs == {<<>>, a, n0}

RECURSIVE Join(_)
Join(segs) == IF Len(segs) = 1 THEN segs[1] ELSE segs[1] \o <<"/">> \o Join(Tail(segs))

\* strings that step into the array of DocNested, past the end of an array, and
\* that use the other delimiter
MorePaths ==
    {b, <<"b", "/", "0">>, <<"b", "/", "a">>, <<"b", "/", "1">>, <<"a", "/", "1">>,
     <<"a", ".", "0">>, <<".", "a", ".", ".", "0", ".">>}

PathStrsP == {Join(q) : q \in UNION {[1..k -> SegArgs] : k \in 1..MaxSegs}} \cup MorePaths

PathArgsP == {PStr(s) : s \in PathStrsP} \cup {PIdx(i) : i \in 0..MaxIdx}

InitPath ==
    /\ doc \in PathDocs
    /\ rptr = Moved
    /\ wptr = Moved
    /\ last = [op |-> "init"]
    /\ nops = 0

\* v.pathto(s)
PathtoP(s) ==
    /\ rptr' = pathto(doc, s)
    /\ wptr' = Moved
    /\ last' = [op |-> "pathto", doc0 |-> doc, ptr0 |-> Some(<<>>), p |-> PStr(s)]
    /\ UNCHANGED <<doc, nops>>

\* v.pathto_mut(s)
PathtoMutP(s) ==
    /\ wptr' = pathto_mut(doc, s)
    /\ rptr' = Moved
    /\ last' = [op |-> "pathto_mut", doc0 |-> doc, ptr0 |-> Some(<<>>), p |-> PStr(s)]
    /\ UNCHANGED <<doc, nops>>

\* TomlPtr / p
DivP(p) ==
    /\ rptr # Moved
    /\ rptr' = path(doc, rptr, p)
    /\ last' = [op |-> "div", doc0 |-> doc, ptr0 |-> rptr, p |-> p]
    /\ UNCHANGED <<doc, wptr, nops>>

\* TomlPtrMut / p
DivMutP(p) ==
    /\ wptr # Moved
    /\ wptr' = path_mut(doc, wptr, p)
    /\ last' = [op |-> "div_mut", doc0 |-> doc, ptr0 |-> wptr, p |-> p,
                self |-> consume(wptr)]
    /\ UNCHANGED <<doc, rptr, nops>>

NextPath ==
    \/ Path
    \/ \E s \in PathStrsP : PathtoP(s)
    \/ PathMut
    \/ \E s \in PathStrsP : PathtoMutP(s)
    \/ \E p \in PathArgsP : DivP(p)
    \/ \E p \in PathArgsP : DivMutP(p)
    \/ \E rhs \in DefaultArgs : BitOr(rhs)
    \/ \E rhs \in DefaultArgs : BitOrMut(rhs)

SpecPath == InitPath /\ [][NextPath]_vars

(***************************************************************************)
(* Every operator, with the strings at the edge of the parser among the    *)
(* operands of resolution: empty, a lone delimiter, digits that overflow a *)
(* usize.                                                                  *)
(***************************************************************************)
\* usize::MAX + 1
Huge == [UsizeMaxDigits EXCEPT ![Len(UsizeMaxDigits)] = "6"]

EdgeStrs == {<<>>, <<"/">>, Huge, <<"b", "/">> \o Huge}

\* a default of the pipe that unwraps after its own test (String) and one of
\* the pipes that match on the option
EdgeDefaults == {HStr(""), HBool(TRUE)}

\* a scalar of the node's own type and one of another type
EdgeScalars == {HStr("y"), HInt(2)}

EdgeAssignArgs == {HVec(<<HInt(2)>>)}

NextAll ==
    \/ Path
    \/ PathMut
    \/ \E p \in PathArgs : Div(p)
    \/ \E p \in PathArgs : DivMut(p)
    \/ \E s \in EdgeStrs : PathtoP(s)
    \/ \E s \in EdgeStrs : PathtoMutP(s)
    \/ \E s \in EdgeStrs : DivP(PStr(s))
    \/ \E s \in EdgeStrs : DivMutP(PStr(s))
    \/ \E rhs \in EdgeDefaults : BitOr(rhs)
    \/ \E rhs \in EdgeDefaults : BitOrMut(rhs)
    \/ \E rhs \in EdgeScalars : ShlScalar(rhs)
    \/ \E val \in PushArgs : ShlPair(KStr(a), val)
    \/ \E val \in PushArgs : ShlTuple(val)
    \/ \E item \in ItemArgs : ShlArray1(item)
    \/ \E items \in SliceArgs : ShlSlice(items)
    \/ \E rhs \in EdgeAssignArgs : ShlAssign(rhs)

SpecAll == Init /\ [][NextAll]_vars

(***************************************************************************)
(* The path parser alone: build_path of every string over a small alphabet *)
(* and of the usize operands.                                              *)
(***************************************************************************)
ParseChars == {"a", "0", "/", "."}

ParseStrs == UNION {[1..k -> ParseChars] : k \in 0..MaxLen}

ParseArgs == {PStr(s) : s \in ParseStrs} \cup {PIdx(i) : i \in 0..MaxIdx}

InitParse ==
    /\ doc = DocFlat
    /\ rptr = Moved
    /\ wptr = Moved
    /\ last = [op |-> "init"]
    /\ nops = 0

\* p.build_path()
BuildPath(p) ==
    /\ last' = [op |-> "build_path", p |-> p, paths |-> build_path(p)]
    /\ UNCHANGED <<doc, rptr, wptr, nops>>

NextParse == \E p \in ParseArgs : BuildPath(p)

SpecParse == InitParse /\ [][NextParse]_vars
(***************************************************************************)
(* Properties.  `last` holds the operator just applied with the document   *)
(* (doc0) and the pointer (ptr0) it was applied to.                        *)
(***************************************************************************)
PushOps == {"shl_scalar", "shl_pair", "shl_tuple", "shl_array1", "shl_slice", "shl_assign"}
AppendOps == {"shl_tuple", "shl_array1", "shl_slice"}

\* the pointer before the last operator was bound to a node of kind k
Was(k) == last.ptr0.some /\ node(last.doc0, last.ptr0.loc).kind = k

\* a fresh read pointer stepped from the root along loc, one key or index at a time
RECURSIVE Walk(_, _, _)
Walk(d, v, loc) ==
    IF loc = <<>> THEN v
    ELSE Walk(d, path(d, v, IF IsKey(Head(loc)) THEN PStr(Head(loc).key) ELSE PIdx(Head(loc).idx)),
              Tail(loc))

Fresh(d, loc) == Walk(d, Some(<<>>), loc)

\* a pointer into the value val seen as a pointer into the document that holds val at loc
Under(loc, v) == IF v.some THEN Some(loc \o v.loc) ELSE None

\* the Value kind a host value of the type of rhs converts to
KindOf(rhs) ==
    CASE Is(rhs, "string") -> "String" [] Is(rhs, "i64") -> "Integer"
      [] Is(rhs, "f64") -> "Float" [] Is(rhs, "bool") -> "Boolean"
      [] Is(rhs, "vec") -> "Array" [] Is(rhs, "map") -> "Table"

\* the scalar a node stores, as the host value of its type
Stored(n) ==
    CASE n.kind = "String" -> HStr(n.str) [] n.kind = "Integer" -> HInt(n.int)
      [] n.kind = "Float" -> HFloat(n.flt) [] n.kind = "Boolean" -> HBool(n.bool)

\* the values a push operator appended
Appended == IF last.op = "shl_slice" THEN last.items ELSE <<last.rhs>>

\* C1: an Empty pointer stays Empty: a step, a pipe or any push operator applied
\* to an Empty read or write pointer leaves the pointer Empty.
C1_EmptyAbsorbing ==
    /\ (last.op \in {"div", "bitor"} /\ ~last.ptr0.some) => (rptr # Moved /\ ~rptr.some)
    /\ (last.op \in {"div_mut"} \cup PushOps /\ ~last.ptr0.some) => (wptr # Moved /\ ~wptr.some)

\* a second push operator in a row on a pointer the first one left Empty
C1_Witness ==
    /\ last.op \in PushOps /\ last.ptr0 = None /\ wptr = None
    /\ nops = MaxOps

\* C2: `|` returns the stored value exactly when the pointer is Bound to a scalar
\* of the type of the default, and the default in every other case.
C2_ExtractOrDefault ==
    last.op \in {"bitor", "bitor_mut"} =>
        IF Was(KindOf(last.rhs))
        THEN last.ret = Stored(node(last.doc0, last.ptr0.loc))
        ELSE last.ret = last.rhs

\* an integer node read with a float default gives the default
C2_Witness ==
    /\ last.op = "bitor" /\ Was("Integer")
    /\ Is(last.rhs, "f64") /\ last.ret = last.rhs

\* C3: `<< scalar` returns a Bound pointer iff the pointer was Bound to a scalar of
\* the operand's type; otherwise the result is Empty and the document unchanged.
C3_OverwriteIffSameKind ==
    last.op = "shl_scalar" =>
        /\ wptr # Moved
        /\ wptr.some <=> Was(KindOf(last.rhs))
        /\ ~wptr.some => doc = last.doc0

\* a scalar of another type refused
C3_Witness ==
    /\ last.op = "shl_scalar" /\ Was("Float")
    /\ Is(last.rhs, "i64") /\ wptr = None /\ doc = last.doc0

\* C4: after a successful `<< scalar` the node holds the operand, the returned
\* pointer is Bound to that node and reads the operand, and so does a fresh read
\* pointer stepped from the root along the same path.
C4_OverwriteStores ==
    (last.op = "shl_scalar" /\ wptr.some) =>
        /\ wptr = last.ptr0
        /\ node(doc, wptr.loc) = ValueFrom(last.rhs)
        /\ \A dflt \in DefaultArgs : KindOf(dflt) = KindOf(last.rhs) =>
              /\ bitor_mut(doc, wptr, dflt) = last.rhs
              /\ bitor(doc, Fresh(doc, wptr.loc), dflt) = last.rhs

\* a nested scalar overwritten with a different value
C4_Witness ==
    /\ last.op = "shl_scalar" /\ wptr.some /\ Len(wptr.loc) > 1
    /\ node(last.doc0, wptr.loc) # ValueFrom(last.rhs)

\* the text of the key of the last `<< (key, val)`
KeyText == IF "chars" \in DOMAIN last.key THEN last.key.chars ELSE <<"0">>

\* C5: `<< (key, val)` on a table maps key to val, keeps every other entry, keeps
\* the size if the key was present and grows it by one otherwise, and returns a
\* pointer Bound to the same table.
C5_InsertIntoTable ==
    (last.op = "shl_pair" /\ Was("Table")) =>
        LET t0 == node(last.doc0, last.ptr0.loc).tab
            n1 == node(doc, last.ptr0.loc)
        IN  /\ wptr = last.ptr0
            /\ n1.kind = "Table"
            /\ KeyText \in DOMAIN n1.tab /\ n1.tab[KeyText] = ValueFrom(last.rhs)
            /\ Cardinality(DOMAIN n1.tab) =
                   Cardinality(DOMAIN t0) + (IF KeyText \in DOMAIN t0 THEN 0 ELSE 1)
            /\ \A k \in DOMAIN t0 : k \in DOMAIN n1.tab /\ (k # KeyText => n1.tab[k] = t0[k])

\* two chained inserts, the second replacing a table-valued entry
C5_Witness ==
    /\ last.op = "shl_pair" /\ Was("Table") /\ nops = MaxOps
    /\ last.ptr0.loc = <<>> /\ last.key = KStr(a)
    /\ node(last.doc0, <<>>).tab[a].kind = "Table"
    /\ node(doc, <<>>).tab =
          (a :> VInt(2)) @@ (b :> VArr(<<VStr("x")>>)) @@ (n0 :> VInt(2))

\* C6: `<< (key, val)` on an Empty pointer or on a node that is no table returns
\* Empty and leaves the document unchanged.
C6_InsertRefused ==
    (last.op = "shl_pair" /\ ~Was("Table")) => (wptr = None /\ doc = last.doc0)

\* an insert into an array
C6_Witness == last.op = "shl_pair" /\ Was("Array") /\ wptr = None

\* C7: an append to an array of length n of one value or of a slice of k values
\* gives the array of length n + k whose first n elements are the old ones and
\* whose next k are the appended ones in order; the pointer stays on the array.
C7_AppendToArray ==
    (last.op \in AppendOps /\ Was("Array")) =>
        LET a0 == node(last.doc0, last.ptr0.loc).arr
            n1 == node(doc, last.ptr0.loc)
        IN  /\ wptr = last.ptr0
            /\ n1.kind = "Array"
            /\ Len(n1.arr) = Len(a0) + Len(Appended)
            /\ \A i \in 1..Len(a0) : n1.arr[i] = a0[i]
            /\ \A i \in 1..Len(Appended) : n1.arr[Len(a0) + i] = ValueFrom(Appended[i])

\* a slice of two appended to an array that an earlier append had grown
C7_Witness ==
    /\ last.op = "shl_slice" /\ Was("Array") /\ Len(last.items) = MaxSlice
    /\ nops = MaxOps
    /\ node(doc, last.ptr0.loc).arr = <<VStr("x"), VStr("y"), VInt(2), VInt(3)>>

\* C8: every form of append on an Empty pointer or on a node that is no array
\* returns Empty and leaves the document unchanged.
C8_AppendRefused ==
    (last.op \in AppendOps /\ ~Was("Array")) => (wptr = None /\ doc = last.doc0)

\* C9: `<<=` on a Bound pointer replaces the node by the operand whatever the
\* kinds, the pointer stays Bound to the node, and a fresh pointer reaches the
\* node and steps from it as the operand alone would be stepped into.
C9_ReassignBound ==
    (last.op = "shl_assign" /\ last.ptr0.some) =>
        LET loc == last.ptr0.loc IN
        /\ wptr = last.ptr0
        /\ node(doc, loc) = ValueFrom(last.rhs)
        /\ Fresh(doc, loc) = Some(loc)
        /\ \A p \in PathArgs :
              path(doc, Fresh(doc, loc), p) =
                  Under(loc, path(ValueFrom(last.rhs), Some(<<>>), p))

\* a scalar below the root became an array whose element an index step reaches
C9_Witness ==
    /\ last.op = "shl_assign" /\ last.ptr0.some /\ last.ptr0.loc # <<>>
    /\ node(last.doc0, last.ptr0.loc).kind \in ScalarKinds
    /\ Is(last.rhs, "vec")
    /\ path(doc, Fresh(doc, last.ptr0.loc), PIdx(0)) = Some(Append(last.ptr0.loc, Idx(0)))

\* C10: `<<=` on an Empty pointer changes nothing: the document is the same and
\* the pointer is still Empty.
C10_ReassignEmpty ==
    (last.op = "shl_assign" /\ ~last.ptr0.some) => (doc = last.doc0 /\ wptr = None)

\* a reassign through a pointer stepped to a missing key
C10_Witness == last.op = "shl_assign" /\ last.ptr0 = None /\ nops = 1

\* C11: after `<<=` of a scalar X through a Bound pointer, `|` with any default of
\* the type of X returns X and `|` with a default of another type returns that
\* default, on the write pointer and on a fresh read pointer along the same path.
C11_RoundTrip ==
    (last.op = "shl_assign" /\ last.ptr0.some /\ KindOf(last.rhs) \in ScalarKinds) =>
        \A dflt \in DefaultArgs :
            LET want == IF KindOf(dflt) = KindOf(last.rhs) THEN last.rhs ELSE dflt IN
            /\ wptr = last.ptr0
            /\ bitor_mut(doc, wptr, dflt) = want
            /\ bitor(doc, Fresh(doc, last.ptr0.loc), dflt) = want

\* a boolean assigned over a nested node of another kind and read back
C11_Witness ==
    /\ last.op = "shl_assign" /\ last.ptr0.some /\ Len(last.ptr0.loc) > 1
    /\ node(last.doc0, last.ptr0.loc).kind # "Boolean"
    /\ last.rhs = HBool(TRUE)
    /\ bitor(doc, Fresh(doc, last.ptr0.loc), HBool(FALSE)) = HBool(TRUE)

(***************************************************************************)
(* Properties of resolution, under SpecPath.                               *)
(***************************************************************************)
ReadOps == {"div", "pathto"}
WriteOps == {"div_mut", "pathto_mut"}

\* the pointer the last resolution returned
Ret == IF last.op \in ReadOps THEN rptr ELSE wptr

\* no table of the value has a key that contains a delimiter
RECURSIVE NoDelimKeys(_)
NoDelimKeys(v) ==
    CASE v.kind = "Table" ->
           \A k \in DOMAIN v.tab :
               /\ \A i \in 1..Len(k) : ~IsDelim(k[i])
               /\ NoDelimKeys(v.tab[k])
      [] v.kind = "Array" -> \A i \in 1..Len(v.arr) : NoDelimKeys(v.arr[i])
      [] OTHER -> TRUE

\* the string is a decimal non-negative integer
IsDecimal(s) == s # <<>> /\ \A i \in 1..Len(s) : s[i] \in Digits

\* one individual step with a segment: an index step on an array when the
\* segment is a decimal integer, a key step otherwise
SegStep(d, v, s) ==
    IF v.some /\ node(d, v.loc).kind = "Array" /\ IsDecimal(s)
    THEN path(d, v, PIdx(DecVal(s)))
    ELSE path(d, v, PStr(s))

\* the chain of individual steps with the segments
RECURSIVE Chain(_, _, _)
Chain(d, v, segs) == IF segs = <<>> THEN v ELSE Chain(d, SegStep(d, v, Head(segs)), Tail(segs))

\* the last resolution was a step with an operand of type &str
StrStep == last.op \in {"div", "div_mut"} /\ last.ptr0.some /\ IsStr(last.p)

\* C12: on a document without delimiters in its keys, a step from a Bound read
\* pointer with the compound string s1/../sn of n >= 2 non-empty segments gives
\* the result of the chain of the n individual steps.
C12_CompoundEqualsChain ==
    (/\ last.op = "div" /\ StrStep
     /\ NoDelimKeys(last.doc0)
     /\ Len(split(last.p.str)) >= 2
     /\ \A i \in 1..Len(split(last.p.str)) : split(last.p.str)[i] # <<>>
     /\ last.p.str = Join(split(last.p.str)))
        => rptr = Chain(last.doc0, last.ptr0, split(last.p.str))

\* C13: a step with a string that is literally a key of the table the pointer is
\* Bound to is Bound to that entry, for read and write pointers, also when the
\* string holds delimiters and its segments lead to another node.
C13_DirectFirst ==
    (StrStep /\ node(last.doc0, last.ptr0.loc).kind = "Table"
             /\ last.p.str \in DOMAIN node(last.doc0, last.ptr0.loc).tab)
        => Ret = Some(Append(last.ptr0.loc, Key(last.p.str)))

\* a write step to the key "a/0" whose segments a, 0 lead into the array under a
C13_Witness ==
    /\ last.op = "div_mut" /\ StrStep /\ last.p.str = aSlash0
    /\ wptr = Some(<<Key(aSlash0)>>)
    /\ apply(doc, <<>>, split(aSlash0)) = Some(<<Key(a), Idx(0)>>)

\* the segments of the last string operand
Segs == split(last.p.str)

\* the last resolution walked the segments of its operand: pathto / pathto_mut,
\* or a step whose string is no key of the node and holds a delimiter
UsesWalk ==
    \/ last.op \in {"pathto", "pathto_mut"}
    \/ StrStep /\ ~get(last.doc0, last.ptr0.loc, last.p).some /\ Len(Segs) > 1

\* the pointer the walk holds after its first i segments
Reached(i) ==
    IF last.op \in ReadOps
    THEN apply(last.doc0, last.ptr0.loc, SubSeq(Segs, 1, i))
    ELSE apply_mut(last.doc0, last.ptr0.loc, SubSeq(Segs, 1, i))

\* the segment names a key the table n lacks, an index past the end of the
\* array n, or anything below the scalar n
Miss(n, seg) ==
    \/ n.kind = "Table" /\ seg \notin DOMAIN n.tab
    \/ n.kind = "Array" /\ IsDecimal(seg) /\ DecVal(seg) >= Len(n.arr)
    \/ n.kind \notin {"Table", "Array"}

\* the same for the operand of a direct step
DirectMiss(n, p) ==
    \/ n.kind = "Table" /\ IsStr(p) /\ p.str \notin DOMAIN n.tab
    \/ n.kind = "Array" /\ ~IsStr(p) /\ p.idx >= Len(n.arr)
    \/ n.kind \notin {"Table", "Array"}

NDelims(s) == Cardinality({i \in 1..Len(s) : s[i] \in {"/", "."}})

\* number of characters of the string before its i-th segment
RECURSIVE Offset(_, _)
Offset(segs, i) == IF i = 1 THEN 0 ELSE Offset(segs, i - 1) + Len(segs[i - 1]) + 1

\* the string with '/' and '.' exchanged
Swap(s) == [i \in 1..Len(s) |-> IF s[i] = "/" THEN "." ELSE IF s[i] = "." THEN "/" ELSE s[i]]

\* the string with '.' in place of every '/'
Dotted(s) == [i \in 1..Len(s) |-> IF s[i] = "/" THEN "." ELSE s[i]]

\* C15: build_path of any string gives one segment more than the string has
\* delimiters, the segments hold no delimiter and are, in order, the stretches of
\* the string between its delimiters (empty ones kept); a string without a
\* delimiter gives itself, the empty string one empty segment, and exchanging
\* '/' and '.' gives the same segments.
C15_ParserTotal ==
    (last.op = "build_path" /\ IsStr(last.p)) =>
        LET s == last.p.str
            segs == last.paths
            n == Len(segs)
        IN  /\ n = NDelims(s) + 1
            /\ \A i \in 1..n : \A j \in 1..Len(segs[i]) : segs[i][j] \notin {"/", "."}
            /\ \A i \in 1..n :
                  /\ segs[i] = SubSeq(s, Offset(segs, i) + 1, Offset(segs, i) + Len(segs[i]))
                  /\ i < n => s[Offset(segs, i) + Len(segs[i]) + 1] \in {"/", "."}
            /\ Offset(segs, n) + Len(segs[n]) = Len(s)
            /\ NDelims(s) = 0 => segs = <<s>>
            /\ s = <<>> => segs = << <<>> >>
            /\ build_path(PStr(Swap(s))) = segs
            /\ build_path(PStr(Dotted(s))) = segs

\* a leading delimiter and two trailing ones of both kinds
C15_Witness ==
    /\ last.op = "build_path" /\ IsStr(last.p)
    /\ last.p.str = <<"/", "a", ".", "/">>
    /\ last.paths = << <<>>, <<"a">>, <<>>, <<>> >>

\* the string without its leading delimiters
RECURSIVE DropLead(_)
DropLead(s) == IF s # <<>> /\ Head(s) \in {"/", "."} THEN DropLead(Tail(s)) ELSE s

\* the string without its trailing delimiters
RECURSIVE DropTrail(_)
DropTrail(s) ==
    IF s # <<>> /\ s[Len(s)] \in {"/", "."} THEN DropTrail(SubSeq(s, 1, Len(s) - 1)) ELSE s

\* the string with every run of delimiters cut down to its last one
RECURSIVE Collapse(_)
Collapse(s) ==
    IF Len(s) <= 1 THEN s
    ELSE IF s[1] \in {"/", "."} /\ s[2] \in {"/", "."} THEN Collapse(Tail(s))
    ELSE <<s[1]>> \o Collapse(Tail(s))

Normal(s) == DropTrail(DropLead(Collapse(s)))

\* C16: pathto and pathto_mut resolve a string as they resolve the string
\* without its leading and trailing delimiters and with every run of delimiters
\* collapsed into one.
C16_EmptySegmentsSkipped ==
    /\ last.op = "pathto" => rptr = pathto(last.doc0, Normal(last.p.str))
    /\ last.op = "pathto_mut" => wptr = pathto_mut(last.doc0, Normal(last.p.str))

\* ".a..0." read as "a.0"
C16_Witness ==
    /\ last.op = "pathto" /\ last.p.str = <<".", "a", ".", ".", "0", ".">>
    /\ Normal(last.p.str) = <<"a", ".", "0">>
    /\ rptr = Some(<<Key(a), Key(n0)>>)

\* what the read and the write resolver give for the pointer and operand of the
\* last resolution
ReadRet ==
    IF last.op \in {"div", "div_mut"} THEN path(last.doc0, last.ptr0, last.p)
    ELSE pathto(last.doc0, last.p.str)

WriteRet ==
    IF last.op \in {"div", "div_mut"} THEN path_mut(last.doc0, last.ptr0, last.p)
    ELSE pathto_mut(last.doc0, last.p.str)

ReadOf(v) == IF v.some THEN Some(v.loc) ELSE None

\* C19: `|` on a write pointer returns what `|` returns on a read pointer Bound
\* to the same node, or Empty as the write pointer is, for every default, and
\* leaves the document as it was.
C19_WritePipeAsRead ==
    last.op = "bitor_mut" =>
        /\ last.ret = bitor(last.doc0, ReadOf(last.ptr0), last.rhs)
        /\ doc = last.doc0

\* an integer written by a push operator and read through the write pointer
C19_Witness ==
    /\ last.op = "bitor_mut" /\ nops > 0
    /\ last.ptr0.some /\ node(doc, last.ptr0.loc) = VInt(2)
    /\ last.rhs = HInt(0) /\ last.ret = HInt(2)

ResolveOps == {"path", "pathto", "path_mut", "pathto_mut", "div", "div_mut"}

\* C20: a rooting call, a step on a read or write pointer and a pipe leave the
\* document as it was, whether the result is Bound or Empty.
C20_ResolveKeepsDoc ==
    last.op \in ResolveOps \cup {"bitor", "bitor_mut"} => doc = last.doc0

\* a write step to a missing key of a table that a push operator had changed
C20_Witness ==
    /\ last.op = "div_mut" /\ nops > 0
    /\ last.ptr0.some /\ node(doc, last.ptr0.loc).kind = "Table"
    /\ n0 \notin DOMAIN node(doc, last.ptr0.loc).tab
    /\ wptr = None /\ doc = last.doc0

(***************************************************************************)
(* Properties of every operator, under SpecAll.                            *)
(***************************************************************************)
\* the location names a node of the value
RECURSIVE ValidLoc(_, _)
ValidLoc(d, loc) ==
    IF loc = <<>> THEN TRUE
    ELSE IF IsKey(Head(loc))
         THEN /\ d.kind = "Table" /\ Head(loc).key \in DOMAIN d.tab
              /\ ValidLoc(d.tab[Head(loc).key], Tail(loc))
         ELSE /\ d.kind = "Array" /\ Head(loc).idx < Len(d.arr)
              /\ ValidLoc(d.arr[Head(loc).idx + 1], Tail(loc))

\* the pointer is consumed, Empty, or Bound to a node of the document
ValidPtr(d, v) ==
    IF v = Moved THEN TRUE
    ELSE IF v.some THEN ValidLoc(d, v.loc)
    ELSE v = None

\* C21: no operator panics: after every rooting call, step, pipe and push
\* operator, with any operand, each pointer is Empty or Bound to a node of the
\* document and a pipe has returned a value of the type of its default.
C21_NoPanic ==
    /\ ~IsPanic(rptr) /\ ValidPtr(doc, rptr)
    /\ ~IsPanic(wptr) /\ ValidPtr(doc, wptr)
    /\ last.op \in {"bitor", "bitor_mut"} =>
          (~IsPanic(last.ret) /\ KindOf(last.ret) = KindOf(last.rhs))

\* pathto_mut with digits that overflow a usize under an array, after a push
C21_Witness ==
    /\ last.op = "pathto_mut" /\ "p" \in DOMAIN last /\ last.p.str = <<"b", "/">> \o Huge
    /\ ~parse_ok(Huge)
    /\ doc.kind = "Table" /\ b \in DOMAIN doc.tab /\ doc.tab[b].kind = "Array"
    /\ nops > 0 /\ wptr = None


\* operators on a write pointer that take their receiver by value
ConsumingOps == {"div_mut", "shl_scalar", "shl_pair", "shl_tuple",
                 "shl_array1", "shl_slice"}

\* the handle the last operator was applied to, as it is after the call
Receiver == IF "self" \in DOMAIN last THEN last.self ELSE Moved

Alive(h) == h # Moved

Bound(h) == Alive(h) /\ h.some

C23_ArrayNonIndexFails ==
    (last.op \in ReadOps /\ last.ptr0.some /\ UsesWalk) =>
        \A i \in 1..Len(Segs) :
            (/\ Segs[i] # <<>>
             /\ Reached(i - 1).some
             /\ node(last.doc0, Reached(i - 1).loc).kind = "Array"
             /\ ~IsDecimal(Segs[i])) => rptr = None


\* C24: rooting a read pointer with the path string p gives the result of
\* rooting it at the document and stepping with p.
C24_PathtoAsStep ==
    (last.op = "pathto" /\ "p" \in DOMAIN last) =>
        rptr = path(last.doc0, Some(<<>>), last.p)


\* the last resolution was a step with an integer operand from a Bound pointer
IdxStep == last.op \in {"div", "div_mut"} /\ last.ptr0.some /\ ~IsStr(last.p)

\* C25: a step with the integer i is Bound to element i exactly when the node
\* is an Array of length greater than i, and Empty otherwise, also on a Table
\* that has the decimal string of i as a key.
C25_IndexStep ==
    IdxStep =>
        LET n == node(last.doc0, last.ptr0.loc)
            i == last.p.idx
        IN  Ret = IF n.kind = "Array" /\ Len(n.arr) > i
                  THEN Some(Append(last.ptr0.loc, Idx(i)))
                  ELSE None

\* a step with 0 on the table under a, which has the key "0"
C25_Witness ==
    /\ IdxStep /\ last.op = "div" /\ last.p = PIdx(0)
    /\ last.doc0 = DocNested /\ last.ptr0 = Some(<<Key(a)>>)
    /\ n0 \in DOMAIN node(last.doc0, <<Key(a)>>).tab
    /\ DecStr(0) = n0
    /\ rptr = None


\* the operators that chain with `<<`
ChainOps == PushOps \ {"shl_assign"}

\* the last `<<` was applied to a Bound pointer whose node does not match it: a
\* scalar of another kind or no scalar, no table for an insert, no array for an
\* append
Mismatch ==
    /\ last.ptr0.some
    /\ \/ last.op = "shl_scalar" /\ ~Was(KindOf(last.rhs))
       \/ last.op = "shl_pair" /\ ~Was("Table")
       \/ last.op \in AppendOps /\ ~Was("Array")

\* C26: no rollback in a chain of `<<`: the first refused mutation leaves the
\* document as the earlier ones made it and gives Empty, and every later
\* mutation of the chain changes nothing and gives Empty.
C26_NoRollback ==
    last.op \in ChainOps =>
        /\ Mismatch => (wptr = None /\ doc = last.doc0)
        /\ ~last.ptr0.some => (wptr = None /\ doc = last.doc0)


\* the locations of the nodes of a value
RECURSIVE Locs(_)
Locs(v) ==
    {<<>>} \cup
    (CASE v.kind = "Table" ->
            UNION {{<<Key(k)>> \o l : l \in Locs(v.tab[k])} : k \in DOMAIN v.tab}
       [] v.kind = "Array" ->
            UNION {{<<Idx(i - 1)>> \o l : l \in Locs(v.arr[i])} : i \in 1..Len(v.arr)}
       [] OTHER -> {})

\* loc p is loc l or leads to an ancestor of it
IsPrefix(p, l) == Len(p) <= Len(l) /\ SubSeq(l, 1, Len(p)) = p

\* the keys or the positions of the children of a node
ChildIds(n) ==
    CASE n.kind = "Table" -> DOMAIN n.tab
      [] n.kind = "Array" -> 1..Len(n.arr)
      [] OTHER -> {}

\* C27: a push operator through a pointer Bound to the node N changes nothing
\* outside N: the nodes that are not N or below N are the same, the path from
\* the root to N has the same keys and indices, and an insert or an append keeps
\* the children N had, apart from the entry under the inserted key.
C27_Local ==
    (last.op \in PushOps /\ last.ptr0.some) =>
        LET loc == last.ptr0.loc
            d0 == last.doc0
            Outside(d) == {l \in Locs(d) : ~IsPrefix(loc, l)}
        IN  /\ ValidLoc(doc, loc)
            /\ Outside(doc) = Outside(d0)
            /\ \A l \in Outside(d0) :
                  IF IsPrefix(l, loc)
                  THEN /\ node(doc, l).kind = node(d0, l).kind
                       /\ ChildIds(node(doc, l)) = ChildIds(node(d0, l))
                  ELSE node(doc, l) = node(d0, l)
            /\ (last.op = "shl_pair" /\ Was("Table")) =>
                  \A k \in DOMAIN node(d0, loc).tab \ {KeyText} :
                      /\ ValidLoc(doc, Append(loc, Key(k)))
                      /\ node(doc, Append(loc, Key(k))) = node(d0, Append(loc, Key(k)))
            /\ (last.op \in AppendOps /\ Was("Array")) =>
                  \A i \in 1..Len(node(d0, loc).arr) :
                      /\ ValidLoc(doc, Append(loc, Idx(i - 1)))
                      /\ node(doc, Append(loc, Idx(i - 1))) = node(d0, Append(loc, Idx(i - 1)))

\* an insert of a new key into the table under a: the entry "0" of that table
\* and the array under b are as they were
C27_Witness ==
    /\ last.op = "shl_pair" /\ last.doc0 = DocNested
    /\ last.ptr0 = Some(<<Key(a)>>) /\ last.key = KStr(a)
    /\ doc # last.doc0
    /\ node(doc, <<Key(a)>>).tab = (a :> VInt(2)) @@ (n0 :> VInt(1))
    /\ node(doc, <<Key(b)>>) = node(DocNested, <<Key(b)>>)
====
